---- MODULE Spec2Model ----
(***************************************************************************)
(* A model of colossus_pkgcenter.cpp: the control-sequence stripper, the   *)
(* search-result parser and the GTK handlers that run the search pipeline  *)
(* and the install / remove / cleanup operations on one cooperative event  *)
(* loop.  Text is a sequence of byte values.                               *)
(***************************************************************************)
EXTENDS Integers, Sequences, FiniteSets, TLC

VARIABLES
    sText, sOut, sOut2, sPc,      \* stripper harness: input, strip(input), strip(strip(input))
    pLines, pOut, pPc,            \* parser harness: input lines, parse result
    app,                          \* "prompt", "running", "closing", "closed", "aborted" ("off" in the harnesses)
    g_sudo_password,              \* the cached credential
    entry,                        \* the text of g_search_entry
    stack,                        \* the handler activations, innermost last
    running,                      \* the subprocesses popen'd and not yet pclose'd
    rows                          \* the children of g_results_list, in order

stripVars == <<sText, sOut, sOut2, sPc>>
parseVars == <<pLines, pOut, pPc>>
appVars == <<app, g_sudo_password, entry, stack, running, rows>>
vars == <<sText, sOut, sOut2, sPc, pLines, pOut, pPc,
          app, g_sudo_password, entry, stack, running, rows>>

(***************************************************************************)
(* Byte values the code compares against.                                  *)
(***************************************************************************)
ESC == 27
BEL == 7
LBRACKET == 91
RBRACKET == 93
BACKSLASH == 92
CSI_FINAL_LO == 64
CSI_FINAL_HI == 126
SP == 32
TAB == 9
NL == 10
SLASH == 47
BUFFER_SIZE == 4096

(***************************************************************************)
(* Bounds of the model.                                                    *)
(***************************************************************************)
MaxStripLen == 6
MaxLines == 4
MaxNesting == 2

(***************************************************************************)
(* Generic helpers on sequences.                                           *)
(***************************************************************************)
SeqsUpTo(S, n) == UNION {[1..k -> S] : k \in 0..n}

Sub(s, a, b) == IF a > b THEN <<>> ELSE SubSeq(s, a, b)

Min(S) == CHOOSE x \in S : \A y \in S : x <= y

(***************************************************************************)
(* strip_ansi_and_osc                                                      *)
(***************************************************************************)

\* CSI scan with the final byte left unconsumed.
RECURSIVE CsiEndKeepFinal(_, _)
CsiEndKeepFinal(input, j) ==
    IF j > Len(input) THEN j
    ELSE IF input[j] >= CSI_FINAL_LO /\ input[j] <= CSI_FINAL_HI THEN j
    ELSE CsiEndKeepFinal(input, j + 1)

\* The inner loop of the CSI branch: the index after the first byte in
\* '@'..'~' at or after j, or the end of the input.
RECURSIVE CsiEnd(_, _)
CsiEnd(input, j) ==
    IF j > Len(input) THEN j
    ELSE IF input[j] >= CSI_FINAL_LO /\ input[j] <= CSI_FINAL_HI THEN j + 1
    ELSE CsiEnd(input, j + 1)

\* OSC scan whose ESC-backslash terminator consumes the ESC only.
RECURSIVE OscEndShortST(_, _)
OscEndShortST(input, j) ==
    IF j > Len(input) THEN j
    ELSE IF input[j] = BEL THEN j + 1
    ELSE IF input[j] = ESC /\ j + 1 <= Len(input) /\ input[j + 1] = BACKSLASH
         THEN j + 1
    ELSE OscEndShortST(input, j + 1)

\* The inner loop of the OSC branch: the index after the first BEL or
\* ESC-backslash at or after j, or the end of the input.
RECURSIVE OscEnd(_, _)
OscEnd(input, j) ==
    IF j > Len(input) THEN j
    ELSE IF input[j] = BEL THEN j + 1
    ELSE IF input[j] = ESC /\ j + 1 <= Len(input) /\ input[j + 1] = BACKSLASH
         THEN j + 2
    ELSE OscEnd(input, j + 1)

\* A scanner that copies every ordinary character twice.
KeepCharDoubled(out, c) == Append(Append(out, c), c)

\* "Normal character, keep it": out.push_back(input[i]).
KeepChar(out, c) == Append(out, c)

\* A scanner that takes the character after such an ESC for a part of the
\* sequence and skips it too.
AfterOtherEscSkipsNext(i) == i + 2

\* "Any other ESC sequence: just drop the ESC and move on": i++ at an ESC
\* followed by a character other than '[' and ']'.
AfterOtherEsc(i) == i + 1

\* One iteration of the outer loop in which an ESC that starts no CSI or OSC
\* sequence is copied instead of dropped.
StripStepKeepEsc(input, i, out) ==
    IF input[i] = ESC
    THEN IF i + 1 > Len(input) THEN [i |-> i + 1, out |-> out]
         ELSE IF input[i + 1] = LBRACKET
              THEN [i |-> CsiEnd(input, i + 2), out |-> out]
         ELSE IF input[i + 1] = RBRACKET
              THEN [i |-> OscEnd(input, i + 2), out |-> out]
         ELSE [i |-> i + 1, out |-> Append(out, input[i])]
    ELSE [i |-> i + 1, out |-> KeepChar(out, input[i])]

\* One iteration of the outer loop, at index i <= Len(input) (1-based).
StripStep(input, i, out) ==
    IF input[i] = ESC
    THEN IF i + 1 > Len(input) THEN [i |-> i + 1, out |-> out]
         ELSE IF input[i + 1] = LBRACKET
              THEN [i |-> CsiEnd(input, i + 2), out |-> out]
         ELSE IF input[i + 1] = RBRACKET
              THEN [i |-> OscEnd(input, i + 2), out |-> out]
         ELSE [i |-> AfterOtherEsc(i), out |-> out]
    ELSE [i |-> i + 1, out |-> KeepChar(out, input[i])]

RECURSIVE StripLoop(_, _, _)
StripLoop(input, i, out) ==
    IF i > Len(input) THEN out
    ELSE LET st == StripStep(input, i, out) IN StripLoop(input, st.i, st.out)

strip_ansi_and_osc(input) == StripLoop(input, 1, <<>>)

(***************************************************************************)
(* Stripper harness: the input is any text over StripAlphabet of at most   *)
(* MaxStripLen bytes; the function is applied once, then to its own result.*)
(***************************************************************************)
StripAlphabet == {ESC, BEL, LBRACKET, RBRACKET, BACKSLASH, 109, 49}

StripInputs == SeqsUpTo(StripAlphabet, MaxStripLen)

ParseIdle == pLines = <<>> /\ pOut = <<>> /\ pPc = "off"
AppIdle ==
    /\ app = "off"
    /\ g_sudo_password = ""
    /\ entry = <<>>
    /\ stack = <<>>
    /\ running = <<>>
    /\ rows = <<>>
StripIdle == sText = <<>> /\ sOut = <<>> /\ sOut2 = <<>> /\ sPc = "off"

InitStrip ==
    /\ sText \in StripInputs
    /\ sOut = <<>>
    /\ sOut2 = <<>>
    /\ sPc = "input"
    /\ ParseIdle
    /\ AppIdle

StripApply ==
    /\ sPc = "input"
    /\ sOut' = strip_ansi_and_osc(sText)
    /\ sPc' = "stripped"
    /\ UNCHANGED <<sText, sOut2, parseVars, appVars>>

StripAgain ==
    /\ sPc = "stripped"
    /\ sOut2' = strip_ansi_and_osc(sOut)
    /\ sPc' = "restripped"
    /\ UNCHANGED <<sText, sOut, parseVars, appVars>>

NextStrip == StripApply \/ StripAgain

SpecStrip == InitStrip /\ [][NextStrip]_vars

(***************************************************************************)
(* Claim-side vocabulary for the stripper.                                 *)
(***************************************************************************)
EscFree(s) == \A k \in 1..Len(s) : s[k] # ESC

IsCsiFinal(c) == c >= CSI_FINAL_LO /\ c <= CSI_FINAL_HI

\* C7: strip is idempotent: stripping the stripped text gives the stripped
\* text again.
C7_StripIdempotent == sPc = "restripped" => sOut2 = sOut

\* An input with an escape sequence in it has been stripped twice.
C7_Witness ==
    /\ sPc = "restripped"
    /\ sText = <<49, ESC, LBRACKET, 49, 109>>
    /\ sOut = <<49>>

\* C8: CSI removal.  Whenever the input is a ESC '[' p f b with a and b free
\* of ESC, p free of bytes in '@'..'~' and f in '@'..'~', the result is a b;
\* whenever it is a ESC '[' p with a free of ESC and p free of bytes in
\* '@'..'~', the result is a.
C8_CsiRemoval ==
    sPc # "input" =>
        \A k \in 1..Len(sText) :
            ( /\ sText[k] = ESC
              /\ k + 1 <= Len(sText)
              /\ sText[k + 1] = LBRACKET
              /\ EscFree(Sub(sText, 1, k - 1)) )
            =>
            /\ \A e \in (k + 2)..Len(sText) :
                  ( /\ IsCsiFinal(sText[e])
                    /\ \A m \in (k + 2)..(e - 1) : ~IsCsiFinal(sText[m])
                    /\ EscFree(Sub(sText, e + 1, Len(sText))) )
                  => sOut = Sub(sText, 1, k - 1) \o Sub(sText, e + 1, Len(sText))
            /\ (\A m \in (k + 2)..Len(sText) : ~IsCsiFinal(sText[m]))
                  => sOut = Sub(sText, 1, k - 1)

\* A CSI sequence with text on both sides has been removed.
C8_Witness ==
    /\ sPc = "stripped"
    /\ sText = <<49, ESC, LBRACKET, 49, 109, 49>>
    /\ sOut = <<49, 49>>

\* The terminators of an OSC sequence whose body starts at index b.
OscTerminators(s, b) ==
    {t \in b..Len(s) :
        \/ s[t] = BEL
        \/ s[t] = ESC /\ t + 1 <= Len(s) /\ s[t + 1] = BACKSLASH}

\* C9: OSC removal.  Whenever the input is a ESC ']' r with a free of ESC:
\* if r holds a terminator (BEL, or ESC followed by a backslash), the result
\* is a followed by the stripped text after the first terminator; otherwise
\* the result is a.
C9_OscRemoval ==
    sPc # "input" =>
        \A k \in 1..Len(sText) :
            ( /\ sText[k] = ESC
              /\ k + 1 <= Len(sText)
              /\ sText[k + 1] = RBRACKET
              /\ EscFree(Sub(sText, 1, k - 1)) )
            =>
            LET T == OscTerminators(sText, k + 2) IN
            IF T = {}
            THEN sOut = Sub(sText, 1, k - 1)
            ELSE LET t == Min(T)
                     after == IF sText[t] = BEL THEN t + 1 ELSE t + 2
                 IN  sOut = Sub(sText, 1, k - 1)
                            \o strip_ansi_and_osc(Sub(sText, after, Len(sText)))

\* An OSC sequence closed by ESC-backslash, with text after it, has been
\* removed.
C9_Witness ==
    /\ sPc = "stripped"
    /\ sText = <<ESC, RBRACKET, 49, ESC, BACKSLASH, 49>>
    /\ sOut = <<49>>

(***************************************************************************)
(* parse_yay_search                                                        *)
(***************************************************************************)

\* std::isspace in the "C" locale, which operator>> skips and stops at.
IsSpace(c) == c \in {SP, TAB, NL, 11, 12, 13}

\* The lines std::getline yields: a final newline starts no further line.
RECURSIVE SplitLines(_)
SplitLines(text) ==
    IF text = <<>> THEN <<>>
    ELSE LET nls == {k \in 1..Len(text) : text[k] = NL} IN
         IF nls = {} THEN <<text>>
         ELSE LET n == Min(nls) IN
              <<Sub(text, 1, n - 1)>> \o SplitLines(Sub(text, n + 1, Len(text)))

\* operator>>: skip whitespace from index i on; Len(s) + 1 when none is left.
RECURSIVE SkipWs(_, _)
SkipWs(s, i) ==
    IF i > Len(s) THEN i
    ELSE IF IsSpace(s[i]) THEN SkipWs(s, i + 1)
    ELSE i

\* operator>>: the index after the token that starts at i.
RECURSIVE TokenEnd(_, _)
TokenEnd(s, i) ==
    IF i > Len(s) THEN i
    ELSE IF IsSpace(s[i]) THEN i
    ELSE TokenEnd(s, i + 1)

\* std::string::find of a substring: does s contain pat?
Contains(s, pat) ==
    \E k \in 1..(Len(s) - Len(pat) + 1) : SubSeq(s, k, k + Len(pat) - 1) = pat

INSTALLED_BRACKET == <<91, 105, 110, 115, 116, 97, 108, 108, 101, 100, 93>>
INSTALLED_PAREN == <<40, 105, 110, 115, 116, 97, 108, 108, 101, 100, 41>>

\* A default-constructed PackageInfo.
EmptyPackageInfo ==
    [repo |-> <<>>, name |-> <<>>, version |-> <<>>, description |-> <<>>,
     installed |-> FALSE]

\* rfind in place of find: the index of the last '/' of the token, 0 if none.
SlashPosLast(tok) ==
    LET S == {k \in 1..Len(tok) : tok[k] = SLASH} IN
    IF S = {} THEN 0 ELSE CHOOSE k \in S : \A m \in S : m <= k

\* repo_name.find('/'): the index of the first '/' of the token, 0 if none.
SlashPos(tok) ==
    LET S == {k \in 1..Len(tok) : tok[k] = SLASH} IN
    IF S = {} THEN 0 ELSE Min(S)

\* The description taken from an indented line: the line from its first
\* byte that is neither space nor tab, or the whole line when there is none.
DescriptionOf(line) ==
    LET S == {k \in 1..Len(line) : line[k] \notin {SP, TAB}} IN
    IF S = {} THEN line ELSE Sub(line, Min(S), Len(line))

\* A parser that stops expecting a description at a line it rejects.
RejectedHeaderResets(st) == [st EXCEPT !.expecting_desc = FALSE]

\* continue; after a header line with fewer than two tokens or without a
\* '/' in its first token: nothing was assigned.
RejectedHeader(st) == st

\* A parser that does not clear the flag of the previous candidate.
InstalledMarkerCarried(st, rest) ==
    \/ st.current.installed
    \/ Contains(rest, INSTALLED_BRACKET)
    \/ Contains(rest, INSTALLED_PAREN)

\* current.installed after a header: set to false, then to true when the
\* rest of the line holds one of the markers.
InstalledMarker(st, rest) ==
    \/ Contains(rest, INSTALLED_BRACKET)
    \/ Contains(rest, INSTALLED_PAREN)

\* A parser for which a blank line changes nothing.
BlankLineKeeps(st) == st

\* if (line.empty()) { expecting_desc = false; continue; }
BlankLine(st) == [st EXCEPT !.expecting_desc = FALSE]

\* The header branch of the loop body: the parser state after a line that is
\* neither empty nor indented.
ParseHeader(st, line) ==
    LET s1 == SkipWs(line, 1)
        e1 == TokenEnd(line, s1)
        s2 == SkipWs(line, e1)
        e2 == TokenEnd(line, s2)
        repo_name == Sub(line, s1, e1 - 1)
        version == Sub(line, s2, e2 - 1)
        rest == Sub(line, e2, Len(line))
        slash_pos == SlashPos(repo_name)
    IN  IF s1 > Len(line) \/ s2 > Len(line) THEN RejectedHeader(st)
        ELSE IF slash_pos = 0 THEN RejectedHeader(st)
        ELSE [st EXCEPT
                !.current =
                    [repo |-> Sub(repo_name, 1, slash_pos - 1),
                     name |-> Sub(repo_name, slash_pos + 1, Len(repo_name)),
                     version |-> version,
                     description |-> <<>>,
                     installed |-> InstalledMarker(st, rest)],
                !.expecting_desc = TRUE]

\* A loop body that pushes the pending candidate when a new header arrives.
ParseLineFlush(st, line) ==
    IF line = <<>> THEN BlankLine(st)
    ELSE IF line[1] = SP \/ line[1] = TAB
    THEN IF st.expecting_desc
         THEN LET cur == [st.current EXCEPT !.description = DescriptionOf(line)] IN
              [pkgs |-> Append(st.pkgs, cur), current |-> cur,
               expecting_desc |-> FALSE]
         ELSE st
    ELSE LET nx == ParseHeader(st, line) IN
         IF st.expecting_desc /\ nx # st
         THEN [nx EXCEPT !.pkgs = Append(st.pkgs, st.current)]
         ELSE nx

\* One iteration of the getline loop.
ParseLine(st, line) ==
    IF line = <<>> THEN BlankLine(st)
    ELSE IF line[1] = SP \/ line[1] = TAB
    THEN IF st.expecting_desc
         THEN LET cur == [st.current EXCEPT !.description = DescriptionOf(line)] IN
              [pkgs |-> Append(st.pkgs, cur), current |-> cur,
               expecting_desc |-> FALSE]
         ELSE st
    ELSE ParseHeader(st, line)

RECURSIVE ParseLoop(_, _, _)
ParseLoop(st, lines, i) ==
    IF i > Len(lines) THEN st
    ELSE ParseLoop(ParseLine(st, lines[i]), lines, i + 1)

\* The parser state before the first line.
ParseStart ==
    [pkgs |-> <<>>, current |-> EmptyPackageInfo, expecting_desc |-> FALSE]

\* The parser state when the loop ends.
ParseFinal(output) == ParseLoop(ParseStart, SplitLines(output), 1)

parse_yay_search(output) == ParseFinal(output).pkgs

(***************************************************************************)
(* Parser harness: the input is at most MaxLines lines of LinePool joined  *)
(* by newlines (so a listing ending in the empty line is a listing that    *)
(* ends with a newline).                                                   *)
(***************************************************************************)
L_Blank == <<>>
L_Desc == <<SP, TAB, 100, SP, 101>>                               \* " \td e"
L_WsOnly == <<SP, TAB>>                                           \* " \t"
L_HdrAB == <<97, SLASH, 98, SP, 49>>                              \* "a/b 1"
L_HdrCDE == <<99, SLASH, 100, SLASH, 101, SP, 50, SP>> \o INSTALLED_BRACKET
                                                                  \* "c/d/e 2 [installed]"
L_HdrMarkerVersion == <<99, SLASH, 100, SP>> \o INSTALLED_PAREN   \* "c/d (installed)"
L_NoSlash == <<97, 98, SP, 49>>                                   \* "ab 1"
L_OneToken == <<97, SLASH, 98>>                                   \* "a/b"
L_EmptyRepo == <<SLASH, 98, SP, 49>>                              \* "/b 1"
L_EmptyName == <<97, SLASH, SP, 49, SP>> \o INSTALLED_PAREN        \* "a/ 1 (installed)"

LinePool ==
    {L_Blank, L_Desc, L_WsOnly, L_HdrAB, L_HdrCDE, L_HdrMarkerVersion,
     L_NoSlash, L_OneToken, L_EmptyRepo, L_EmptyName}

RECURSIVE JoinLines(_)
JoinLines(lines) ==
    IF lines = <<>> THEN <<>>
    ELSE IF Len(lines) = 1 THEN lines[1]
    ELSE lines[1] \o <<NL>> \o JoinLines(Tail(lines))

InitParse ==
    /\ pLines \in SeqsUpTo(LinePool, MaxLines)
    /\ pOut = <<>>
    /\ pPc = "input"
    /\ StripIdle
    /\ AppIdle

ParseApply ==
    /\ pPc = "input"
    /\ pOut' = parse_yay_search(JoinLines(pLines))
    /\ pPc' = "parsed"
    /\ UNCHANGED <<pLines, stripVars, appVars>>

NextParse == ParseApply

SpecParse == InitParse /\ [][NextParse]_vars

(***************************************************************************)
(* Claim-side vocabulary for the parser, stated on the lines of the        *)
(* listing without the parser's own scanning.                              *)
(***************************************************************************)
\* The lines of the listing as text holds them.
ListingLines == SplitLines(JoinLines(pLines))

Indented(line) == line # <<>> /\ line[1] \in {SP, TAB}

\* The indices at which a whitespace-separated token starts.
TokenStarts(line) ==
    {k \in 1..Len(line) : ~IsSpace(line[k]) /\ (k = 1 \/ IsSpace(line[k - 1]))}

\* The n-th token of the line (n at most the number of tokens).
TokenAt(line, n) ==
    LET k == CHOOSE k \in TokenStarts(line) :
                 Cardinality({m \in TokenStarts(line) : m <= k}) = n
        ends == {m \in k..Len(line) : m = Len(line) \/ IsSpace(line[m + 1])}
    IN  Sub(line, k, Min(ends))

\* "repo/name version ...": not blank, not indented, at least two tokens,
\* a '/' in the first.
ValidHeader(line) ==
    /\ line # <<>>
    /\ ~Indented(line)
    /\ Cardinality(TokenStarts(line)) >= 2
    /\ \E k \in 1..Len(TokenAt(line, 1)) : TokenAt(line, 1)[k] = SLASH

\* A line the parser passes over without touching its state: neither blank,
\* nor indented, nor a valid header.
Ignored(line) == line # <<>> /\ ~Indented(line) /\ ~ValidHeader(line)

\* The indented lines that close a pending candidate: the nearest line above
\* that is not an ignored one is a valid header.
Emitting(lines) ==
    {i \in 1..Len(lines) :
        /\ Indented(lines[i])
        /\ \E h \in 1..(i - 1) :
              /\ ValidHeader(lines[h])
              /\ \A m \in (h + 1)..(i - 1) : Ignored(lines[m])}

\* C4 (as claimed): every record parse emits has a non-empty repository and
\* a non-empty name.
C4_NonEmptyRepoAndName ==
    pPc = "parsed" =>
        \A i \in 1..Len(pOut) : pOut[i].repo # <<>> /\ pOut[i].name # <<>>

\* C5: a record is emitted only when an indented line is consumed while a
\* candidate is pending: there are exactly as many records as indented lines
\* that directly follow a valid header (ignored lines aside), hence no more
\* than there are valid headers, nor than there are indented lines; a valid
\* header at the end of the input, or directly followed by another valid
\* header, adds no record.
C5_EmitOnlyOnDescription ==
    pPc = "parsed" =>
        LET L == ListingLines
            n == Len(L)
        IN  /\ Len(pOut) = Cardinality(Emitting(L))
            /\ Len(pOut) <= Cardinality({i \in 1..n : ValidHeader(L[i])})
            /\ Len(pOut) <= Cardinality({i \in 1..n : Indented(L[i])})
            /\ (n > 0 /\ ValidHeader(L[n])) =>
                   Len(pOut) = Len(parse_yay_search(JoinLines(Sub(L, 1, n - 1))))
            /\ \A i \in 1..(n - 1) :
                   (ValidHeader(L[i]) /\ ValidHeader(L[i + 1])) =>
                       Len(pOut) = Len(parse_yay_search(
                                        JoinLines(Sub(L, 1, i - 1) \o Sub(L, i + 1, n))))

\* Two headers in a row, a description, then a header at the end of the
\* input: one record, for the second header.
C5_Witness ==
    /\ pPc = "parsed"
    /\ pLines = <<L_HdrAB, L_HdrCDE, L_Desc, L_HdrAB>>
    /\ Len(pOut) = 1
    /\ pOut[1].name = <<100, SLASH, 101>>

\* The listing is n blocks: a valid header line, then an indented line that
\* is not all spaces and tabs.
BlockListing(lines) ==
    /\ Len(lines) % 2 = 0
    /\ \A i \in 1..Len(lines) :
          IF i % 2 = 1 THEN ValidHeader(lines[i])
          ELSE Indented(lines[i]) /\ \E k \in 1..Len(lines[i]) : lines[i][k] \notin {SP, TAB}

\* The record the claim expects of a header line and its description line.
ExpectedFields(hdr, desc) ==
    LET tok == TokenAt(hdr, 1)
        sl == Min({k \in 1..Len(tok) : tok[k] = SLASH})
        d0 == Min({k \in 1..Len(desc) : desc[k] \notin {SP, TAB}})
    IN  [repo |-> Sub(tok, 1, sl - 1),
         name |-> Sub(tok, sl + 1, Len(tok)),
         version |-> TokenAt(hdr, 2),
         description |-> Sub(desc, d0, Len(desc))]

\* C6: a listing of n blocks (header, indented non-blank description) parses
\* to exactly n records in listing order, the i-th with the repository and
\* name on either side of the first '/' of the first token, the second token
\* as version and the description line without its leading spaces and tabs.
C6_BlocksParse ==
    (pPc = "parsed" /\ BlockListing(pLines)) =>
        /\ Len(pOut) * 2 = Len(pLines)
        /\ \A i \in 1..Len(pOut) :
              LET want == ExpectedFields(pLines[2 * i - 1], pLines[2 * i]) IN
              /\ pOut[i].repo = want.repo
              /\ pOut[i].name = want.name
              /\ pOut[i].version = want.version
              /\ pOut[i].description = want.description

\* A listing of two blocks has been parsed into its two records.
C6_Witness ==
    /\ pPc = "parsed"
    /\ pLines = <<L_HdrAB, L_Desc, L_HdrCDE, L_Desc>>
    /\ Len(pOut) = 2
    /\ pOut[2].repo = <<99>>
    /\ pOut[2].name = <<100, SLASH, 101>>
    /\ pOut[2].description = <<100, SP, 101>>

(***************************************************************************)
(* The application: one GTK main loop, its handlers, and the subprocesses  *)
(* they run.  A handler runs to its end unless it drains pending events    *)
(* inside run_command / run_command_status or runs a modal dialog; a       *)
(* handler dispatched from there is an activation above it on the stack,   *)
(* and only the innermost activation moves.                                *)
(***************************************************************************)

\* What the user may have typed into the search entry: "", " ", "q".
Queries == {<<>>, <<SP>>, <<113>>}

\* What `yay -Ss <query>` may print: nothing, or a coloured listing
\*   ESC[1m a/b ESC[0m 1 NL SP d NL c/d 2 [installed] NL TAB e NL
O_None == <<>>
O_Listing ==
    <<ESC, LBRACKET, 49, 109, 97, SLASH, 98, ESC, LBRACKET, 48, 109, SP, 49, NL,
      SP, 100, NL>>
    \o <<99, SLASH, 100, SP, 50, SP>> \o INSTALLED_BRACKET \o <<NL>>
    \o <<TAB, 101, NL>>
SearchOutputs == {O_None, O_Listing}

\* What an install, remove or cleanup command may print: nothing, or a line.
CommandOutputs == {<<>>, <<111, 107, NL>>}

\* The name read through a dangling pointer when the memory holds other data.
GarbageName == <<63>>

Top == stack[Len(stack)]

Pop == SubSeq(stack, 1, Len(stack) - 1)

ReplaceTop(f) == [stack EXCEPT ![Len(stack)] = f]

\* An activation record: op is the handler, pc its position, arg the query
\* (search) or the package name (install, remove); the rest are the locals
\* of perform_search and of the handlers, plus what the activation has done
\* so far (log, checks, spawns).
Frame(op, pc, arg) ==
    [op |-> op, pc |-> pc, arg |-> arg,
     pending |-> <<>>,      \* output the subprocess has yet to deliver
     raw |-> <<>>,          \* raw_output
     output |-> <<>>,       \* output (stripped)
     parsed |-> <<>>,       \* what parse_yay_search returned
     pkgs |-> <<>>,         \* pkgs, as the resolve loop updates it
     idx |-> 1,             \* position of the resolve loop
     checks |-> <<>>,       \* installed-checks made: [name, result]
     spawns |-> 0,          \* subprocesses this activation has spawned
     yields |-> 0,          \* times this activation drained the event loop
     log |-> <<>>,          \* the stages this activation went through
     dangling |-> FALSE,    \* user_data pointed to a freed buffer
     overtaken |-> FALSE,   \* perform_search was called again while this
                            \* call of it was still on the C stack
     auth_ok |-> FALSE,
     ok |-> FALSE]

\* The main window exists and the process has not been aborted.  After
\* gtk_window_close the window stays until the main loop delivers the delete
\* event ("closing").
Alive == app \in {"running", "closing"}

\* The handlers of the main window's widgets can be dispatched when the main
\* loop is idle or a search is draining pending events; a modal dialog
\* (gtk_dialog_run, or the "Installing ..." window) keeps input from them.
CanDispatch ==
    /\ Alive
    /\ IF stack = <<>> THEN TRUE ELSE Top.op = "search" /\ Top.pc = "yield"
    /\ Len(stack) < MaxNesting

\* fgets(buffer, sizeof(buffer), pipe): the bytes up to and including the
\* first newline, at most sizeof(buffer) - 1 of them.
ChunkLen(pending) ==
    LET nls == {k \in 1..Len(pending) : pending[k] = NL}
        upto == IF nls = {} THEN Len(pending) ELSE Min(nls)
    IN  IF upto > BUFFER_SIZE - 1 THEN BUFFER_SIZE - 1 ELSE upto

\* prompt_for_sudo_password: the dialog returns; OK stores the entered text;
\* with an empty credential gtk_window_close asks for the main window to be
\* closed.
PromptReturns ==
    /\ app = "prompt"
    /\ \E response \in {"ok", "cancel"}, pw \in {"", "secret"} :
          /\ g_sudo_password' = IF response = "ok" THEN pw ELSE g_sudo_password
          /\ app' = IF g_sudo_password' = "" THEN "closing" ELSE "running"
    /\ UNCHANGED <<entry, stack, running, rows, stripVars, parseVars>>

\* The main loop delivers the delete event gtk_window_close queued: the
\* window is destroyed and the application ends.  The main loop runs when no
\* handler is active, while a handler drains pending events and inside
\* gtk_dialog_run.
WindowCloses ==
    /\ app = "closing"
    /\ IF stack = <<>> THEN TRUE
       ELSE Top.pc \in {"yield", "warn", "confirm", "done"}
    /\ app' = "closed"
    /\ UNCHANGED <<g_sudo_password, entry, stack, running, rows, stripVars, parseVars>>

\* The user edits the search entry.
EditQuery ==
    /\ CanDispatch
    /\ \E q \in Queries : q # entry /\ entry' = q
    /\ UNCHANGED <<app, g_sudo_password, stack, running, rows, stripVars, parseVars>>

\* The activations perform_search(query) can start with, for a non-empty
\* query: popen failed (run_command returns ""), or `yay -Ss` runs and will
\* print one of SearchOutputs.
SearchStarts(query) ==
    {[Frame("search", "strip", query) EXCEPT !.log = <<"openfail">>]}
    \cup {[Frame("search", "read", query) EXCEPT
              !.pending = out, !.spawns = 1, !.log = <<"open">>] :
          out \in SearchOutputs}

\* The activations under a new call of perform_search: the calls of
\* perform_search among them are no longer the most recent one.
StartedOver(stk) ==
    [i \in 1..Len(stk) |->
        IF stk[i].op = "search" THEN [stk[i] EXCEPT !.overtaken = TRUE]
        ELSE stk[i]]

\* on_search_activated -> perform_search(text), up to the first fgets.
SearchActivated ==
    /\ CanDispatch
    /\ IF entry = <<>>
       THEN /\ rows' = <<>>
            /\ stack' = StartedOver(stack)
            /\ UNCHANGED running
       ELSE /\ \E f \in SearchStarts(entry) :
                  /\ stack' = Append(StartedOver(stack), f)
                  /\ running' = IF f.pc = "read" THEN Append(running, "yay -Ss")
                                ELSE running
            /\ UNCHANGED rows
    /\ UNCHANGED <<app, g_sudo_password, entry, stripVars, parseVars>>

\* A read loop whose body goes straight back to fgets.
AfterChunkPcNoYield == "read"

\* Where the loop body goes once the chunk is taken: into the
\* gtk_events_pending / gtk_main_iteration_do loop.
AfterChunkPc == "yield"

\* fgets returns a chunk, in run_command (appended to the result) or in
\* run_command_status (discarded); the loop body then drains the event loop.
ReadChunk ==
    /\ Alive
    /\ stack # <<>>
    /\ Top.pc = "read"
    /\ Top.pending # <<>>
    /\ LET n == ChunkLen(Top.pending) IN
       stack' = ReplaceTop([Top EXCEPT
                    !.pending = Sub(Top.pending, n + 1, Len(Top.pending)),
                    !.raw = IF Top.op = "search"
                            THEN Top.raw \o Sub(Top.pending, 1, n) ELSE Top.raw,
                    !.log = Append(Top.log, "read"),
                    !.pc = AfterChunkPc])
    /\ UNCHANGED <<app, g_sudo_password, entry, running, rows, stripVars, parseVars>>

\* while (gtk_events_pending()) gtk_main_iteration_do(FALSE) ends: no event
\* is pending any more, and the loop goes back to fgets.
YieldReturns ==
    /\ Alive
    /\ stack # <<>>
    /\ Top.pc = "yield"
    /\ stack' = ReplaceTop([Top EXCEPT !.pc = "read", !.yields = Top.yields + 1])
    /\ UNCHANGED <<app, g_sudo_password, entry, running, rows, stripVars, parseVars>>

\* fgets returns NULL at the end of the output and the pipe is closed: the
\* search goes on to strip; a status command takes ok from the exit status.
ReadEof ==
    /\ Alive
    /\ stack # <<>>
    /\ Top.pc = "read"
    /\ Top.pending = <<>>
    /\ running' = SubSeq(running, 1, Len(running) - 1)
    /\ IF Top.op = "search"
       THEN stack' = ReplaceTop([Top EXCEPT !.pc = "strip",
                                            !.log = Append(Top.log, "close")])
       ELSE \E rc_zero \in BOOLEAN :
               stack' = ReplaceTop([Top EXCEPT !.pc = "done", !.ok = rc_zero,
                                               !.log = Append(Top.log, "close")])
    /\ UNCHANGED <<app, g_sudo_password, entry, rows, stripVars, parseVars>>

\* std::string output = strip_ansi_and_osc(raw_output);
StripStage ==
    /\ Alive
    /\ stack # <<>>
    /\ Top.op = "search" /\ Top.pc = "strip"
    /\ stack' = ReplaceTop([Top EXCEPT !.output = strip_ansi_and_osc(Top.raw),
                                       !.log = Append(Top.log, "strip"),
                                       !.pc = "parse"])
    /\ UNCHANGED <<app, g_sudo_password, entry, running, rows, stripVars, parseVars>>

\* auto pkgs = parse_yay_search(output);
ParseStage ==
    /\ Alive
    /\ stack # <<>>
    /\ Top.op = "search" /\ Top.pc = "parse"
    /\ LET got == parse_yay_search(Top.output) IN
       stack' = ReplaceTop([Top EXCEPT !.parsed = got, !.pkgs = got, !.idx = 1,
                                       !.log = Append(Top.log, "parse"),
                                       !.pc = "resolve"])
    /\ UNCHANGED <<app, g_sudo_password, entry, running, rows, stripVars, parseVars>>

\* The resolve loop leaves before every record has been checked.
ResolveDoneEarly(f) == f.idx >= Len(f.pkgs)

\* for (auto &pkg : pkgs): the loop has gone through every record.
ResolveDone(f) == f.idx > Len(f.pkgs)

\* A resolve step that only ever sets the flag.
ResolvedFlagSticky(provisional, result) == provisional \/ result

\* The flag the loop body stores: true if is_package_installed returned
\* true, false otherwise.
ResolvedFlag(provisional, result) == result

\* A status that reports success when the subprocess could not be spawned.
StatusOnSpawnFailureTrue == TRUE

\* if (!pipe) return false; in run_command_status and run_sudo_with_password.
StatusOnSpawnFailure == FALSE

\* The activation after is_package_installed(pkgs[idx].name) returned
\* result; spawned tells whether popen gave a subprocess.
AfterCheck(f, spawned, result) ==
    [f EXCEPT !.pkgs[f.idx].installed =
                  ResolvedFlag(f.pkgs[f.idx].installed, result),
              !.checks = Append(f.checks,
                                [name |-> f.pkgs[f.idx].name, result |-> result,
                                 spawned |-> spawned]),
              !.idx = f.idx + 1,
              !.log = Append(f.log, "check"),
              !.pc = "resolve"]

\* is_package_installed(pkg.name) -> run_command_status: popen of
\* `pacman -Qi <name> >/dev/null 2>&1`; when popen fails the check is false.
CheckSpawn ==
    /\ Alive
    /\ stack # <<>>
    /\ Top.op = "search" /\ Top.pc = "resolve"
    /\ ~ResolveDone(Top)
    /\ \/ /\ stack' = ReplaceTop(AfterCheck(Top, FALSE, StatusOnSpawnFailure))
          /\ UNCHANGED running
       \/ /\ stack' = ReplaceTop([Top EXCEPT !.pc = "check",
                                             !.spawns = Top.spawns + 1])
          /\ running' = Append(running, "pacman -Qi")
    /\ UNCHANGED <<app, g_sudo_password, entry, rows, stripVars, parseVars>>

\* The check prints nothing (its output goes to /dev/null), so fgets returns
\* NULL without an iteration of the loop; pclose gives the exit status.
CheckReturns ==
    /\ Alive
    /\ stack # <<>>
    /\ Top.op = "search" /\ Top.pc = "check"
    /\ running' = SubSeq(running, 1, Len(running) - 1)
    /\ \E rc_zero \in BOOLEAN : stack' = ReplaceTop(AfterCheck(Top, TRUE, rc_zero))
    /\ UNCHANGED <<app, g_sudo_password, entry, rows, stripVars, parseVars>>

\* Rows inserted at the head of the list (position 0), not at its end.
RowsOfPrepended(pkgs) ==
    [i \in 1..Len(pkgs) |->
        LET p == pkgs[Len(pkgs) + 1 - i] IN
        [name |-> p.name, installed |-> p.installed,
         repo |-> p.repo, version |-> p.version,
         description |-> p.description, freed |-> FALSE]]

\* create_package_row for every record: the row and the g_strdup'd name
\* attached to its button.
RowsOf(pkgs) ==
    [i \in 1..Len(pkgs) |->
        [name |-> pkgs[i].name, installed |-> pkgs[i].installed,
         repo |-> pkgs[i].repo, version |-> pkgs[i].version,
         description |-> pkgs[i].description, freed |-> FALSE]]

\* populate_results(pkgs): clear_results, then one row per record.
Publish ==
    /\ Alive
    /\ stack # <<>>
    /\ Top.op = "search" /\ Top.pc = "resolve"
    /\ ResolveDone(Top)
    /\ rows' = RowsOf(Top.pkgs)
    /\ stack' = ReplaceTop([Top EXCEPT !.pc = "published",
                                       !.log = Append(Top.log, "publish")])
    /\ UNCHANGED <<app, g_sudo_password, entry, running, stripVars, parseVars>>

\* perform_search returns (after the "No results found." label), and with
\* it the handler that called it.
SearchReturns ==
    /\ Alive
    /\ stack # <<>>
    /\ Top.op = "search" /\ Top.pc = "published"
    /\ stack' = Pop
    /\ UNCHANGED <<app, g_sudo_password, entry, running, rows, stripVars, parseVars>>

\* A handler that goes on to its confirmation whatever the credential is.
NeedsWarningNever(pw) == FALSE

\* if (g_sudo_password.empty()) { ... warning ...; return; }
NeedsWarning(pw) == pw = ""

\* The activation a click starts once the name has been copied and freed:
\* the warning when no credential is cached, the confirmation otherwise.
ClickFrame(op, name) ==
    Frame(op, IF NeedsWarning(g_sudo_password) THEN "warn" ELSE "confirm", name)

\* on_install_clicked / on_remove_clicked, up to the first dialog: the
\* handler copies the name from user_data and frees it.  A click on a row
\* whose buffer was freed by an earlier click reads and frees freed memory:
\* the copy is the old name or other data, or the allocator aborts.
RowButtonClicked ==
    /\ CanDispatch
    /\ \E i \in 1..Len(rows) :
          LET op == IF rows[i].installed THEN "remove" ELSE "install" IN
          IF ~rows[i].freed
          THEN /\ rows' = [rows EXCEPT ![i].freed = TRUE]
               /\ stack' = Append(stack, ClickFrame(op, rows[i].name))
               /\ UNCHANGED app
          ELSE \/ /\ app' = "aborted"
                  /\ UNCHANGED <<stack, rows>>
               \/ /\ \E name \in {rows[i].name, GarbageName} :
                        stack' = Append(stack, [ClickFrame(op, name) EXCEPT
                                                   !.dangling = TRUE])
                  /\ UNCHANGED <<app, rows>>
    /\ UNCHANGED <<g_sudo_password, entry, running, stripVars, parseVars>>

\* on_clean_orphans_clicked, up to the first dialog.
CleanOrphansClicked ==
    /\ CanDispatch
    /\ stack' = Append(stack, ClickFrame("clean", <<>>))
    /\ UNCHANGED <<app, g_sudo_password, entry, running, rows, stripVars, parseVars>>

\* The "No sudo password cached" dialog is dismissed and the handler returns.
WarnDismissed ==
    /\ Alive
    /\ stack # <<>>
    /\ Top.pc = "warn"
    /\ stack' = Pop
    /\ UNCHANGED <<app, g_sudo_password, entry, running, rows, stripVars, parseVars>>

\* The package-tool command of each operation.
CommandOf(op) ==
    IF op = "install" THEN "yay -S"
    ELSE IF op = "remove" THEN "yay -Rns"
    ELSE "yay -Yc"

\* A handler that forgets the credential when pre-authentication fails.
CachedCredentialAfterClearing(pw, auth_ok) == IF auth_ok THEN pw ELSE ""

\* g_sudo_password after run_sudo_with_password(g_sudo_password, ...): it is
\* passed by const reference and no handler assigns it.
CachedCredentialAfter(pw, auth_ok) == pw

\* A handler that runs the package-tool command whatever sudo said.
MayRunCommandAlways(auth_ok) == TRUE

\* if (auth_ok) { ... ok = run_command_status(cmd); }
MayRunCommand(auth_ok) == auth_ok

\* The handler from the return of run_sudo_with_password (with auth_ok) to
\* its next stop: without auth_ok the closing dialog with ok = false; with
\* it run_command_status(cmd), whose popen fails (the closing dialog, ok the
\* status of a failed spawn) or starts the command (the first fgets).
AfterAuth(f, auth_ok) ==
    LET g == [f EXCEPT !.auth_ok = auth_ok] IN
    IF MayRunCommand(auth_ok)
    THEN {[g EXCEPT !.pc = "done", !.ok = StatusOnSpawnFailure,
                    !.log = Append(g.log, "openfail")]}
         \cup {[g EXCEPT !.pc = "read", !.pending = out,
                         !.spawns = g.spawns + 1,
                         !.log = Append(g.log, "open")] : out \in CommandOutputs}
    ELSE {[g EXCEPT !.pc = "done", !.ok = FALSE]}

\* The subprocesses running once the handler has become n on top of base.
RunningWith(base, n) ==
    IF n.pc = "read" THEN Append(base, CommandOf(n.op)) ELSE base

\* run_sudo_with_password: if (password.empty()) return false; comes before
\* popen, so only a non-empty password gets as far as spawning sudo.
SudoReachesPopen(password) == password # ""

\* The confirmation dialog returns.  Anything but OK ends the handler; OK
\* goes on to run_sudo_with_password(g_sudo_password, "sudo -S -v"), which
\* returns false without a subprocess for an empty password or a failed
\* popen (second disjunct) and otherwise starts sudo (third).
ConfirmReturns ==
    /\ Alive
    /\ stack # <<>>
    /\ Top.pc = "confirm"
    /\ \/ /\ stack' = Pop
          /\ UNCHANGED <<running, g_sudo_password>>
       \/ LET reached == SudoReachesPopen(g_sudo_password)
              auth_ok == IF reached THEN StatusOnSpawnFailure ELSE FALSE
              stage == IF reached THEN "sudofail" ELSE "nopassword"
          IN  /\ \E n \in AfterAuth([Top EXCEPT !.log = Append(Top.log, stage)],
                                     auth_ok) :
                    /\ stack' = ReplaceTop(n)
                    /\ running' = RunningWith(running, n)
              /\ g_sudo_password' = CachedCredentialAfter(g_sudo_password, auth_ok)
       \/ /\ SudoReachesPopen(g_sudo_password)
          /\ stack' = ReplaceTop([Top EXCEPT !.pc = "preauth",
                                             !.spawns = Top.spawns + 1,
                                             !.log = Append(Top.log, "sudo")])
          /\ running' = Append(running, "sudo -S -v")
          /\ UNCHANGED g_sudo_password
    /\ UNCHANGED <<app, entry, rows, stripVars, parseVars>>

\* run_sudo_with_password: the password is written, the pipe closed, and
\* auth_ok is whether sudo exited with 0; the handler goes on from there.
PreauthReturns ==
    /\ Alive
    /\ stack # <<>>
    /\ Top.pc = "preauth"
    /\ \E rc_zero \in BOOLEAN :
          /\ \E n \in AfterAuth([Top EXCEPT !.log = Append(Top.log, "sudoret")],
                                 rc_zero) :
                /\ stack' = ReplaceTop(n)
                /\ running' = RunningWith(SubSeq(running, 1, Len(running) - 1), n)
          /\ g_sudo_password' = CachedCredentialAfter(g_sudo_password, rc_zero)
    /\ UNCHANGED <<app, entry, rows, stripVars, parseVars>>

\* The closing dialog is dismissed.  Install and remove then re-run the
\* search for the text in the entry when it is not empty; cleanup returns.
DoneDismissed ==
    /\ Alive
    /\ stack # <<>>
    /\ Top.pc = "done"
    /\ IF Top.op # "clean" /\ entry # <<>>
       THEN \E f \in SearchStarts(entry) :
               /\ stack' = Append(StartedOver(Pop), f)
               /\ running' = IF f.pc = "read" THEN Append(running, "yay -Ss")
                             ELSE running
       ELSE /\ stack' = Pop
            /\ UNCHANGED running
    /\ UNCHANGED <<app, g_sudo_password, entry, rows, stripVars, parseVars>>

Init ==
    /\ app = "prompt"
    /\ g_sudo_password = ""
    /\ entry = <<>>
    /\ stack = <<>>
    /\ running = <<>>
    /\ rows = <<>>
    /\ StripIdle
    /\ ParseIdle

Next ==
    \/ PromptReturns
    \/ WindowCloses
    \/ EditQuery
    \/ SearchActivated
    \/ ReadChunk
    \/ YieldReturns
    \/ ReadEof
    \/ StripStage
    \/ ParseStage
    \/ CheckSpawn
    \/ CheckReturns
    \/ Publish
    \/ SearchReturns
    \/ RowButtonClicked
    \/ CleanOrphansClicked
    \/ WarnDismissed
    \/ ConfirmReturns
    \/ PreauthReturns
    \/ DoneDismissed

Spec == Init /\ [][Next]_vars

(***************************************************************************)
(* Claim-side vocabulary for the application.                              *)
(***************************************************************************)
SearchFrames == {i \in 1..Len(stack) : stack[i].op = "search"}

Count(seq, x) == Cardinality({k \in 1..Len(seq) : seq[k] = x})

\* Empty, or nothing but whitespace.
Blank(q) == \A k \in 1..Len(q) : IsSpace(q[k])

\* C1 (as claimed): at every moment at most one subprocess spawned by the
\* program is running.  (Stated for the runs in which the credential is
\* cached and no search is for a blank query.)
C1_AtMostOneSubprocess ==
    (app = "running" /\ \A i \in SearchFrames : ~Blank(stack[i].arg))
        => Len(running) <= 1

\* C2 (as claimed): a search for an empty or whitespace-only query returns
\* at once and invokes no subprocess: no search for such a query is ever
\* under way, let alone with a subprocess spawned.
C2_BlankQueryNoSubprocess ==
    app = "running" =>
        \A i \in SearchFrames : Blank(stack[i].arg) => stack[i].spawns = 0

\* C3: in every search, the installed-checks made so far are for the parsed
\* records' names, one per record and in order, and each checked record's
\* flag is the result of its check, whatever the parser's flag was; when the
\* search publishes, every parsed record has been checked exactly once and
\* the rows shown carry the results of the checks.
C3_FlagIsLocalQueryResult ==
    \A i \in SearchFrames :
        LET f == stack[i] IN
        /\ Len(f.checks) <= Len(f.parsed)
        /\ Len(f.pkgs) = Len(f.parsed)
        /\ \A k \in 1..Len(f.checks) :
              /\ f.checks[k].name = f.parsed[k].name
              /\ f.pkgs[k].installed = f.checks[k].result
        /\ f.pc = "published" =>
              /\ Len(f.checks) = Len(f.parsed)
              /\ Len(rows) = Len(f.parsed)
              /\ \A k \in 1..Len(rows) : rows[k].installed = f.checks[k].result

\* A search has published a record the parser flagged installed and the
\* local query reported as not installed: it is shown as not installed.
C3_Witness ==
    /\ stack # <<>>
    /\ Top.op = "search" /\ Top.pc = "published"
    /\ \E k \in 1..Len(Top.parsed) :
          /\ Top.parsed[k].installed
          /\ ~Top.checks[k].result
          /\ ~rows[k].installed

\* The stage each entry of a search's log may directly follow.
StageFollows(log, k) ==
    LET prev == IF k = 1 THEN "start" ELSE log[k - 1] IN
    CASE log[k] = "open"     -> prev = "start"
      [] log[k] = "openfail" -> prev = "start"
      [] log[k] = "read"     -> prev \in {"open", "read"}
      [] log[k] = "close"    -> prev \in {"open", "read"}
      [] log[k] = "strip"    -> prev \in {"close", "openfail"}
      [] log[k] = "parse"    -> prev = "strip"
      [] log[k] = "check"    -> prev \in {"parse", "check"}
      [] log[k] = "publish"  -> prev \in {"parse", "check"}
      [] OTHER               -> FALSE

\* C10: within one search the stages come in the order capture, strip,
\* parse, resolve, publish: stripping starts only once the search
\* subprocess's output has been read to its end and the subprocess closed,
\* parsing only after stripping, the first installed-check only after
\* parsing, and the results are published only after an installed-check has
\* returned for every parsed record.
C10_StagesInOrder ==
    /\ \A i \in SearchFrames :
          LET f == stack[i] IN
          /\ \A k \in 1..Len(f.log) : StageFollows(f.log, k)
          /\ Count(f.log, "strip") = 1 =>
                f.pending = <<>> /\ f.pc \notin {"read", "yield"}
          /\ Count(f.log, "publish") = 1 =>
                Count(f.log, "check") = Len(f.parsed) /\ f.pc # "check"
    /\ Count(running, "yay -Ss") =
          Cardinality({i \in SearchFrames :
                          Count(stack[i].log, "open") = 1
                          /\ Count(stack[i].log, "close") = 0})

\* A search has gone through every stage: four chunks read, the pipe
\* closed, strip, parse, two installed-checks, publish.
C10_Witness ==
    /\ stack # <<>>
    /\ Top.op = "search" /\ Top.pc = "published"
    /\ Top.log = <<"open", "read", "read", "read", "read", "close", "strip",
                   "parse", "check", "check", "publish">>

\* C11: in capture mode and in status mode the event loop is drained after
\* every chunk and before the next read: an activation that is about to
\* read, or has closed its pipe, has yielded once per chunk it has read, and
\* one that is draining events has read exactly one chunk more.
C11_YieldPerChunk ==
    \A i \in 1..Len(stack) :
        LET f == stack[i] IN
        IF f.pc = "yield"
        THEN f.yields + 1 = Count(f.log, "read")
        ELSE f.yields = Count(f.log, "read")

\* A search has read four chunks and yielded four times, and a status-mode
\* command above it is draining events after its first chunk.
C11_Witness ==
    /\ Len(stack) = 2
    /\ stack[1].op = "search" /\ stack[1].pc = "yield"
    /\ Count(stack[1].log, "read") = 4 /\ stack[1].yields = 3
    /\ stack[2].op = "install" /\ stack[2].pc = "yield"
    /\ Count(stack[2].log, "read") = 1 /\ stack[2].yields = 0

\* The fields of a record or row other than the installed flag.
Identity(r) ==
    [repo |-> r.repo, name |-> r.name, version |-> r.version,
     description |-> r.description]

\* C12: the resolve stage changes only the installed flag: the records of a
\* search keep the parser's length, order, repository, name, version and
\* description; the installed-checks are issued for the records in that
\* same order; and the rows published are those records, in that order.
C12_ResolveKeepsRecords ==
    \A i \in SearchFrames :
        LET f == stack[i] IN
        /\ Len(f.pkgs) = Len(f.parsed)
        /\ \A k \in 1..Len(f.parsed) : Identity(f.pkgs[k]) = Identity(f.parsed[k])
        /\ \A k \in 1..Len(f.checks) : f.checks[k].name = f.parsed[k].name
        /\ f.pc = "published" =>
              /\ Len(rows) = Len(f.parsed)
              /\ \A k \in 1..Len(rows) : Identity(rows[k]) = Identity(f.parsed[k])

\* A search has published two records with different names after checking
\* both, with the flags of both changed by the checks.
C12_Witness ==
    /\ stack # <<>>
    /\ Top.op = "search" /\ Top.pc = "published"
    /\ Len(rows) = 2
    /\ rows[1].name = <<98>> /\ rows[2].name = <<100>>
    /\ rows[1].installed /\ ~rows[2].installed
    /\ ~Top.parsed[1].installed /\ Top.parsed[2].installed

\* ---- C13 ----

\* The positions of the stack that hold an install, remove or clean-up handler.
HandlerFrames == {i \in 1..Len(stack) : stack[i].op # "search"}

\* C13: a subprocess that cannot be spawned gives a value and nothing else.
\* A search whose search-tool popen failed has empty raw text, spawns nothing
\* itself, parses to no record, makes no installed-check and goes through
\* the ordinary stages to publish an empty result list; an installed-check
\* whose popen failed counts as "not installed"; a handler whose sudo popen
\* failed has auth_ok = false, runs no command and shows its closing dialog
\* with ok = false; a handler whose package-tool popen failed shows its
\* closing dialog with ok = false.
C13_SpawnFailuresAbsorbed ==
    /\ \A i \in SearchFrames :
          LET f == stack[i] IN
          /\ (f.log # <<>> /\ f.log[1] = "openfail") =>
                /\ f.raw = <<>> /\ f.output = <<>>
                /\ f.parsed = <<>> /\ f.pkgs = <<>>
                /\ f.checks = <<>>
                /\ f.spawns = 0
                /\ f.pc \in {"strip", "parse", "resolve", "published"}
                /\ f.pc = "published" => rows = <<>>
          /\ \A k \in 1..Len(f.checks) :
                ~f.checks[k].spawned => ~f.checks[k].result
    /\ \A i \in HandlerFrames :
          LET f == stack[i] IN
          /\ Count(f.log, "sudofail") > 0 =>
                /\ ~f.auth_ok /\ ~f.ok
                /\ f.spawns = 0
                /\ f.pc = "done"
          /\ Count(f.log, "openfail") > 0 =>
                /\ ~f.ok
                /\ f.pc = "done"

\* A search whose search-tool popen failed has gone through every stage and
\* published its empty result list.
C13_Witness ==
    /\ stack # <<>>
    /\ Top.op = "search" /\ Top.pc = "published"
    /\ Top.log[1] = "openfail"
    /\ rows = <<>>

\* ---- C14 ----

\* C14: once the password prompt has returned, no step of any search,
\* install, remove or clean-up (a cancelled confirmation, a failed or a
\* successful pre-authentication, a failed or a successful command, the
\* closing of the window) changes g_sudo_password.
C14_CredentialWrittenOnce ==
    [][app # "prompt" => g_sudo_password' = g_sudo_password]_vars

\* An operation whose sudo -S -v was given the cached credential and exited
\* with a failure shows its closing dialog, and the credential is still
\* the one the prompt stored.
C14_Witness ==
    /\ app = "running"
    /\ stack # <<>>
    /\ Top.op \in {"install", "remove", "clean"}
    /\ Top.pc = "done"
    /\ Count(Top.log, "sudoret") = 1
    /\ ~Top.auth_ok
    /\ g_sudo_password = "secret"

\* ---- C15 ----

\* The line without its whole leading run of spaces and tabs.
TrimLeading(line) ==
    LET S == {k \in 1..Len(line) : line[k] \notin {SP, TAB}} IN
    IF S = {} THEN <<>> ELSE Sub(line, Min(S), Len(line))

\* The k-th smallest member of a set of indices.
NthOf(S, k) == CHOOSE i \in S : Cardinality({j \in S : j <= i}) = k

\* C15 (as claimed): the description of every emitted record is the indented
\* line that closed its candidate without the line's whole leading run of
\* spaces and tabs, so a line of spaces and tabs only gives the empty
\* description.
C15_DescriptionTrimmed ==
    pPc = "parsed" =>
        LET L == ListingLines
            E == Emitting(L)
        IN  /\ Len(pOut) = Cardinality(E)
            /\ \A k \in 1..Len(pOut) :
                  pOut[k].description = TrimLeading(L[NthOf(E, k)])

\* ---- C16 ----

\* The parser state after the first j lines.
StateAfter(lines, j) == ParseLoop(ParseStart, Sub(lines, 1, j), 1)

\* The lines without the i-th.
WithoutLine(lines, i) == Sub(lines, 1, i - 1) \o Sub(lines, i + 1, Len(lines))

\* C16: a line that is neither blank nor indented and has fewer than two
\* tokens, or no '/' in its first token, leaves the parser state (records,
\* candidate, expecting-description flag) as it was, so the listing parses
\* to what it parses to without that line.
C16_RejectedHeaderIgnored ==
    pPc = "parsed" =>
        LET L == ListingLines IN
        \A i \in 1..Len(L) :
            Ignored(L[i]) =>
                /\ StateAfter(L, i) = StateAfter(L, i - 1)
                /\ pOut = ParseLoop(ParseStart, WithoutLine(L, i), 1).pkgs

\* A header, a line without '/', a line of one token, then the indented
\* line: the record of the header is emitted with that description.
C16_Witness ==
    /\ pPc = "parsed"
    /\ pLines = <<L_HdrAB, L_NoSlash, L_OneToken, L_Desc>>
    /\ Len(pOut) = 1
    /\ pOut[1].name = <<98>>
    /\ pOut[1].description = <<100, SP, 101>>

\* ---- C17 ----

\* C17: an empty line sets the expecting-description flag to false and
\* leaves the records and the candidate as they were; so a valid header,
\* an empty line, an indented line add no record between them.
C17_BlankLineResetsFlagOnly ==
    pPc = "parsed" =>
        LET L == ListingLines IN
        /\ \A i \in 1..Len(L) :
              L[i] = <<>> =>
                  StateAfter(L, i) =
                      [StateAfter(L, i - 1) EXCEPT !.expecting_desc = FALSE]
        /\ \A i \in 1..(Len(L) - 2) :
              (ValidHeader(L[i]) /\ L[i + 1] = <<>> /\ Indented(L[i + 2])) =>
                  /\ StateAfter(L, i + 2).pkgs = StateAfter(L, i - 1).pkgs
                  /\ StateAfter(L, i + 2).current = StateAfter(L, i).current

\* A header, an empty line and an indented line have been parsed to no
\* record.
C17_Witness ==
    /\ pPc = "parsed"
    /\ pLines = <<L_HdrCDE, L_Blank, L_Desc>>
    /\ pOut = <<>>

\* ---- C18 ----

\* The text of a header line after its second token.
RestAfterVersion(line) ==
    LET k == CHOOSE k \in TokenStarts(line) :
                 Cardinality({m \in TokenStarts(line) : m <= k}) = 2
        ends == {m \in k..Len(line) : m = Len(line) \/ IsSpace(line[m + 1])}
    IN  Sub(line, Min(ends) + 1, Len(line))

HasMarker(text) ==
    Contains(text, INSTALLED_BRACKET) \/ Contains(text, INSTALLED_PAREN)

\* The last index below i in V: with V the valid headers, the header whose
\* candidate the i-th (emitting) line closes.
LastBelow(V, i) == CHOOSE h \in V : h < i /\ \A m \in V : m < i => m <= h

\* C18: after every valid header line the candidate's installed flag is
\* true exactly when the text after the second token holds "[installed]"
\* or "(installed)", whatever the flag of the candidate before it was, and
\* each emitted record carries the flag of its own header; a marker that is
\* the second token is the version and does not set the flag.
C18_ProvisionalFlagFromRest ==
    pPc = "parsed" =>
        LET L == ListingLines
            V == {i \in 1..Len(L) : ValidHeader(L[i])}
            E == Emitting(L)
        IN  /\ \A i \in V :
                  LET cur == StateAfter(L, i).current IN
                  /\ cur.installed = HasMarker(RestAfterVersion(L[i]))
                  /\ TokenAt(L[i], 2) \in {INSTALLED_BRACKET, INSTALLED_PAREN}
                         => cur.version = TokenAt(L[i], 2)
            /\ Len(pOut) = Cardinality(E)
            /\ \A k \in 1..Len(pOut) :
                  pOut[k].installed =
                      HasMarker(RestAfterVersion(L[LastBelow(V, NthOf(E, k))]))

\* A header flagged "[installed]" after its version, then one whose second
\* token is "(installed)", each with its description: the first record is
\* flagged, the second is not and has the marker as its version.
C18_Witness ==
    /\ pPc = "parsed"
    /\ pLines = <<L_HdrCDE, L_Desc, L_HdrMarkerVersion, L_Desc>>
    /\ Len(pOut) = 2
    /\ pOut[1].installed /\ ~pOut[2].installed
    /\ pOut[2].version = INSTALLED_PAREN

\* ---- C19 ----

\* The positions of the text at which scanning meets an ESC that is the last
\* byte or is followed by a byte other than '[' and ']', with only
\* ordinary bytes before it.
FirstOtherEsc(text) ==
    {p \in 1..Len(text) :
        /\ text[p] = ESC
        /\ EscFree(Sub(text, 1, p - 1))
        /\ p = Len(text) \/ text[p + 1] \notin {LBRACKET, RBRACKET}}

\* C19: an ESC that ends the input or is followed by a byte other than '['
\* and ']' is dropped alone: the result is the text before it followed by
\* what the rest of the text after it strips to on its own.  So
\* ESC ESC '[' '1' '1' 'm' strips to the empty text and "1m1" ESC to "1m1".
C19_OtherEscDroppedAlone ==
    sPc \in {"stripped", "restripped"} =>
        /\ \A p \in FirstOtherEsc(sText) :
              sOut = Sub(sText, 1, p - 1)
                         \o strip_ansi_and_osc(Sub(sText, p + 1, Len(sText)))
        /\ sText = <<ESC, ESC, LBRACKET, 49, 49, 109>> => sOut = <<>>
        /\ sText = <<49, 109, 49, ESC>> => sOut = <<49, 109, 49>>
        /\ sText = <<ESC, 49, ESC, 109>> => sOut = <<49, 109>>

\* ESC ESC '[' '1' '1' 'm' has been stripped: the first ESC was dropped alone
\* and the second started the CSI sequence that took the rest.
C19_Witness ==
    /\ sPc = "stripped"
    /\ sText = <<ESC, ESC, LBRACKET, 49, 49, 109>>
    /\ sOut = <<>>

\* ---- C20 ----

\* The package-tool commands of the three operations.
PackageCommands == {CommandOf(op) : op \in {"install", "remove", "clean"}}

\* C20: an install, remove or clean-up starts its package-tool command only
\* after its own sudo -S -v was started and returned success: a handler
\* that started or tried to start the command has auth_ok and the stages
\* "sudo", "sudoret" before it; a handler whose command runs has started
\* it once; after a pre-authentication that failed the handler shows its
\* closing dialog with ok = false, having spawned sudo and nothing else;
\* and the package-tool commands running are those of the handlers that
\* are reading one.
C20_CommandOnlyAfterPreauth ==
    /\ \A i \in HandlerFrames :
          LET f == stack[i] IN
          /\ Count(f.log, "open") + Count(f.log, "openfail") > 0 =>
                /\ f.auth_ok
                /\ Len(f.log) >= 3
                /\ f.log[1] = "sudo" /\ f.log[2] = "sudoret"
                /\ f.log[3] \in {"open", "openfail"}
                /\ Count(f.log, "open") + Count(f.log, "openfail") = 1
          /\ f.pc \in {"read", "yield"} => Count(f.log, "open") = 1
          /\ f.spawns = Count(f.log, "sudo") + Count(f.log, "open")
          /\ (Count(f.log, "sudoret") + Count(f.log, "sudofail") > 0 /\ ~f.auth_ok) =>
                /\ f.pc = "done"
                /\ ~f.ok
                /\ Count(f.log, "open") = 0
                /\ f.spawns = Count(f.log, "sudo")
    /\ Cardinality({k \in 1..Len(running) : running[k] \in PackageCommands})
          = Cardinality({i \in HandlerFrames : stack[i].pc \in {"read", "yield"}})

\* A removal whose sudo -S -v returned success has started yay -Rns and is
\* reading its output.
C20_Witness ==
    /\ stack # <<>>
    /\ Top.op = "remove" /\ Top.pc = "read"
    /\ Top.log = <<"sudo", "sudoret", "open">>
    /\ Top.auth_ok
    /\ running[Len(running)] = "yay -Rns"

\* ---- C21 ----

\* C21 (as claimed): the name buffer of a row's button is freed at most once
\* and never read after it was freed: no handler was started with user_data
\* pointing to a freed buffer (which it reads, then frees again), and the
\* allocator never aborted on a second free.
C21_NameBufferFreedOnce ==
    /\ app # "aborted"
    /\ \A i \in HandlerFrames : ~stack[i].dangling

\* ---- C22 ----

\* C22 (as claimed): the result list always ends up with the records of the
\* most recently started search: no call of perform_search fills the list
\* after a newer call of it was started while the older one was draining
\* the event loop.
C22_NewestSearchShown ==
    \A i \in SearchFrames :
        stack[i].pc = "published" => ~stack[i].overtaken

\* ---- C23 ----

\* The subprocesses that act with privileges: the pre-authentication and the
\* package-tool commands.
PrivilegedCommands == {"sudo -S -v"} \cup PackageCommands

\* C23: while the cached credential is empty no privileged command runs and
\* none was spawned: every install, remove or clean-up handler is at its
\* warning dialog, having spawned nothing and gone through no stage; and
\* run_sudo_with_password does not get as far as popen with an empty
\* password.
C23_NoPrivilegedSpawnWithoutCredential ==
    /\ g_sudo_password = "" =>
          /\ \A k \in 1..Len(running) : running[k] \notin PrivilegedCommands
          /\ \A i \in HandlerFrames :
                /\ stack[i].pc = "warn"
                /\ stack[i].spawns = 0
                /\ stack[i].log = <<>>
    /\ \A i \in HandlerFrames :
          stack[i].pc = "warn" => g_sudo_password = "" /\ stack[i].spawns = 0
    /\ ~SudoReachesPopen("")

\* With no credential cached, a row's button was clicked while a search was
\* reading its output: the handler shows its warning, and the only
\* subprocess is the search's.
C23_Witness ==
    /\ g_sudo_password = ""
    /\ Len(stack) = 2
    /\ stack[1].op = "search" /\ stack[1].pc = "yield"
    /\ stack[2].op \in {"install", "remove"} /\ stack[2].pc = "warn"
    /\ running = <<"yay -Ss">>

\* ---- C24 ----

\* Is a what is left of b when some of b's elements are taken out?
RECURSIVE IsSubsequence(_, _)
IsSubsequence(a, b) ==
    IF a = <<>> THEN TRUE
    ELSE IF b = <<>> THEN FALSE
    ELSE IF a[1] = b[1] THEN IsSubsequence(Tail(a), Tail(b))
    ELSE IsSubsequence(a, Tail(b))

\* C24: whatever the input, the stripped text holds no ESC, is a subsequence
\* of the input (its bytes in their order, some taken out) and so no longer
\* than it, and is the input itself when the input holds no ESC.
C24_StripOutputShape ==
    sPc \in {"stripped", "restripped"} =>
        /\ EscFree(sOut)
        /\ IsSubsequence(sOut, sText)
        /\ Len(sOut) <= Len(sText)
        /\ EscFree(sText) => sOut = sText

\* A text with a lone ESC and a CSI sequence has been stripped to its
\* ordinary bytes.
C24_Witness ==
    /\ sPc = "stripped"
    /\ sText = <<49, ESC, 109, ESC, LBRACKET, 109>>
    /\ sOut = <<49, 109>>

====
